---- MODULE Spec2Model ----
(***************************************************************************)
(* Agent-side bookkeeping and settlement engine of the stocks simulation   *)
(* (src/src/entities/agents.rs): the composite-keyed holdings ledger, the  *)
(* Timeline ring buffer, the retry pool, and Agents::trade with its        *)
(* settlement and expiry handling.                                         *)
(*                                                                         *)
(* Money (f64 in the code) is counted in quarters of a currency unit, and  *)
(* every amount of the model is a whole number of quarters small enough    *)
(* that the f64 operations of the code (+, -, *, * 0.25) are exact on it.  *)
(***************************************************************************)
EXTENDS Integers, Sequences, FiniteSets, TLC

(* ------------------------------ bounds --------------------------------- *)

\* Width of an identifier in bits, standing for the 64 bits of a u64.
IdBits == 2
\* Number of shares of one order.
MaxQty == 2
\* Offers the market's book holds at once.
MaxBook == 1
\* Calls of the engine (trade, alert_agents) in one run of the model.
MaxSteps == 2
\* Largest lifetime counter an expired offer may carry.
MaxLifetime == 1
\* Balance and share count every agent starts with (company 0 only).
InitBalance == 8
InitShares == 2
\* Caps on what the refunds of expired offers may add up to.
MaxBalance == 24
MaxShares == 3
\* Capacity of a Timeline, standing for TIMELINE_SIZE_LIMIT.
TIMELINE_SIZE_LIMIT == 3

\* Agents 0 and 1 (num_of_agents = 2) trade the shares of companies 0 and 1.
AgentIds == {0, 1}
CompanyIds == {0, 1}
\* Strike prices 1.0 and 2.0, in quarters (main.rs 134 keeps them positive).
StrikePrices == {4, 8}
\* main.rs 138 trades no order of zero shares.
Quantities == 1 .. MaxQty
TradeActions == {"Buy", "Sell"}

VARIABLES
    holdings,        \* Agents.holdings: Holdings(HashMap<u128, u64>)
    balances,        \* Agents.balances: Balances(Vec<f64>), in quarters
    try_offers,      \* Agents.try_offers: HashMap<u128, f64>, in quarters
    book,            \* the Market's queued trade offers
    steps,           \* calls of the engine made so far
    timeline,        \* one Timeline {data, target_index}
    added,           \* the events passed to Timeline::add so far, oldest first
    total,           \* how many events that is (counted up to capacity + 1)
    preferences,     \* Agents.preferences: Preferences(Vec<Timeline>)
    last,            \* the last call: its operation, arguments and result
    pre              \* the agent-side state and the book before the last call

vars == <<holdings, balances, try_offers, book, steps, timeline, added, total,
          preferences, last, pre>>
engineVars == <<holdings, balances, try_offers, book, steps>>
timelineVars == <<timeline, added, total, preferences>>

(* ----------------------------- KeyCodec -------------------------------- *)

RECURSIVE Pow2(_)
Pow2(n) == IF n = 0 THEN 1 ELSE 2 * Pow2(n - 1)

\* u64 values of the model
Word == Pow2(IdBits)

\* Mutant: the first half shifted by one bit less than the width.
combine_narrow(a, b) == a * (Word \div 2) + b

combine(a, b) == a * Word + b

get_first(k) == (k \div Word) % Word

get_second(k) == k % Word

(* ------------------------------ Holdings ------------------------------- *)

HoldingsGet(h, agent_id, company_id) ==
    IF combine(agent_id, company_id) \in DOMAIN h
    THEN h[combine(agent_id, company_id)]
    ELSE 0

HoldingsGetU128(h, id) == IF id \in DOMAIN h THEN h[id] ELSE 0

\* Mutant: push that stores the pushed number in place of the sum.
HoldingsPushOverwrite(h, agent_id, company_id, number_of_shares) ==
    LET key == combine(agent_id, company_id)
    IN  IF key \in DOMAIN h
        THEN [h EXCEPT ![key] = number_of_shares]
        ELSE h @@ (key :> number_of_shares)

HoldingsPush(h, agent_id, company_id, number_of_shares) ==
    LET key == combine(agent_id, company_id)
    IN  IF key \in DOMAIN h
        THEN [h EXCEPT ![key] = @ + number_of_shares]
        ELSE h @@ (key :> number_of_shares)

\* Mutant: the check-then-act of pop without the check on the count.
HoldingsPopUnchecked(h, agent_id, company_id, number_of_shares) ==
    LET key == combine(agent_id, company_id)
    IN  IF key \notin DOMAIN h
        THEN [err |-> "Unspendable", h |-> h]
        ELSE [err |-> "Ok",
              h |-> [h EXCEPT ![key] = IF @ < number_of_shares THEN 0 ELSE @ - number_of_shares]]

HoldingsPop(h, agent_id, company_id, number_of_shares) ==
    LET key == combine(agent_id, company_id)
    IN  IF key \notin DOMAIN h
        THEN [err |-> "Unspendable", h |-> h]
        ELSE IF h[key] < number_of_shares
        THEN [err |-> "Unspendable", h |-> h]
        ELSE [err |-> "Ok", h |-> [h EXCEPT ![key] = @ - number_of_shares]]

\* Mutant: settlement that credits the shares instead of debiting them.
HoldingsPopFromTxnCredits(h, target_agent_id, transaction) ==
    [err |-> "Ok",
     h |-> HoldingsPush(h, target_agent_id, transaction.company_id,
                        transaction.number_of_shares)]

HoldingsPopFromTxn(h, target_agent_id, transaction) ==
    LET key == combine(target_agent_id, transaction.company_id)
    IN  IF key \notin DOMAIN h
        THEN [err |-> "Unspendable", h |-> h]
        ELSE IF h[key] < transaction.number_of_shares
        THEN [err |-> "Unspendable", h |-> h]
        ELSE [err |-> "Ok", h |-> [h EXCEPT ![key] = @ - transaction.number_of_shares]]

(* ------------------------------ Balances ------------------------------- *)

BalancesGet(b, agent_id) ==
    IF agent_id \in DOMAIN b
    THEN [err |-> "Ok", val |-> b[agent_id]]
    ELSE [err |-> "AgentNotFound", val |-> 0]

BalancesAdd(b, agent_id, amount) ==
    IF agent_id \in DOMAIN b
    THEN [err |-> "Ok", b |-> [b EXCEPT ![agent_id] = @ + amount]]
    ELSE [err |-> "AgentNotFound", b |-> b]

(* ------------------- the Market (external collaborator) ---------------- *)

EmptyExpired == [c \in CompanyIds |-> <<>>]

NoTxn == [number_of_shares |-> 0]

Min(x, y) == IF x < y THEN x ELSE y

Abs(x) == IF x < 0 THEN 0 - x ELSE x

RemoveAt(s, i) == [j \in 1 .. (Len(s) - 1) |-> IF j < i THEN s[j] ELSE s[j + 1]]

NewOffer(agent_id, company_id, strike_price, shares, action) ==
    [offerer_id |-> agent_id, company_id |-> company_id,
     strike_price |-> strike_price, number_of_shares |-> shares, action |-> action]

\* The queued offers of the other side for this company.
Opposite(bk, company_id, action) ==
    {i \in 1 .. Len(bk) : bk[i].company_id = company_id /\ bk[i].action # action}

\* Offer i gives n of its shares: it leaves the book when none are left.
Fill(bk, i, n) ==
    IF bk[i].number_of_shares = n
    THEN RemoveAt(bk, i)
    ELSE [bk EXCEPT ![i].number_of_shares = @ - n]

\* Transaction::new(buyer_id, seller_id, ...).  Which party of a match the
\* market passes as buyer_id is its own business (the field comments of
\* transaction.rs 13-16 name the giver of the shares buyer_id): `swapped`
\* chooses between the two assignments.
NewTransaction(agent_id, action, offer, n, strike_price, swapped) ==
    LET buying == IF action = "Buy" THEN agent_id ELSE offer.offerer_id
        selling == IF action = "Buy" THEN offer.offerer_id ELSE agent_id
    IN  [buyer_id |-> IF swapped THEN selling ELSE buying,
         seller_id |-> IF swapped THEN buying ELSE selling,
         company_id |-> offer.company_id,
         number_of_shares |-> n,
         strike_price |-> strike_price]

\* Market::trade: the answers the matching mechanism may give to an order, each
\* with the book it leaves.  Ok(AddedToOffers): the order is queued.
\* Ok(InstantlyResolved(t)) / Ok(PartiallyResolved(t)): the order met a queued
\* offer of the other side at its price, wholly or in part (what is left of the
\* order is queued).  Err(offer_idxs): queued offers of the other side within
\* the tolerance band, left to the caller.
MarketTrade(bk, agent_id, company_id, strike_price, deviation, qty, action) ==
    LET opp == Opposite(bk, company_id, action)
        exact == {i \in opp : bk[i].strike_price = strike_price}
        near == {i \in opp : bk[i].strike_price # strike_price
                               /\ Abs(bk[i].strike_price - strike_price) <= deviation}
    IN  {[kind |-> "AddedToOffers", txn |-> NoTxn, idxs |-> {},
          book |-> Append(bk, NewOffer(agent_id, company_id, strike_price, qty, action))]
            : x \in IF Len(bk) < MaxBook THEN {0} ELSE {}}
        \cup
        {LET n == Min(qty, bk[i].number_of_shares)
             t == NewTransaction(agent_id, action, bk[i], n, strike_price, swapped)
         IN  IF n = qty
             THEN [kind |-> "InstantlyResolved", txn |-> t, idxs |-> {},
                   book |-> Fill(bk, i, n)]
             ELSE [kind |-> "PartiallyResolved", txn |-> t, idxs |-> {},
                   book |-> Append(Fill(bk, i, n),
                                   NewOffer(agent_id, company_id, strike_price, qty - n, action))]
            : i \in IF qty > 0 THEN exact ELSE {}, swapped \in BOOLEAN}
        \cup
        {[kind |-> "Candidates", txn |-> NoTxn, idxs |-> near, book |-> bk]
            : x \in IF near # {} THEN {0} ELSE {}}

\* Market::trade_offer followed by House::add_trade_offer for what is left.
MarketTradeOffer(bk, i, agent_id, company_id, strike_price, qty, action) ==
    LET n == Min(qty, bk[i].number_of_shares)
        filled == Fill(bk, i, n)
    IN  IF qty - n > 0
        THEN Append(filled, NewOffer(agent_id, company_id, strike_price, qty - n, action))
        ELSE filled

(* --------------------------- Agents: trading --------------------------- *)

\* A quarter of an amount (x * 0.25): amounts it is applied to are multiples of 4.
Quarter(x) == x \div 4

\* Mutant: a buy locks the strike price once, whatever the quantity.
CollateralPriceOnly(h, b, agent_id, company_id, strike_price, qty, action) ==
    IF action = "Sell"
    THEN LET r == HoldingsPop(h, agent_id, company_id, qty)
         IN  [err |-> r.err, h |-> r.h, b |-> b]
    ELSE LET g == BalancesGet(b, agent_id)
         IN  IF g.err # "Ok"
             THEN [err |-> g.err, h |-> h, b |-> b]
             ELSE IF g.val < strike_price * qty
             THEN [err |-> "Unspendable", h |-> h, b |-> b]
             ELSE LET a == BalancesAdd(b, agent_id, 0 - strike_price)
                  IN  [err |-> a.err, h |-> h, b |-> a.b]

\* Mutant: a buy is debited without the check of the balance.
CollateralUnchecked(h, b, agent_id, company_id, strike_price, qty, action) ==
    IF action = "Sell"
    THEN LET r == HoldingsPop(h, agent_id, company_id, qty)
         IN  [err |-> r.err, h |-> r.h, b |-> b]
    ELSE LET g == BalancesGet(b, agent_id)
         IN  IF g.err # "Ok"
             THEN [err |-> g.err, h |-> h, b |-> b]
             ELSE LET a == BalancesAdd(b, agent_id, 0 - (strike_price * qty))
                  IN  [err |-> IF g.val < strike_price * qty THEN "Unspendable" ELSE a.err,
                       h |-> h, b |-> a.b]

\* Mutant: a buy is checked against the price of one share.
CollateralChecksOneShare(h, b, agent_id, company_id, strike_price, qty, action) ==
    IF action = "Sell"
    THEN LET r == HoldingsPop(h, agent_id, company_id, qty)
         IN  [err |-> r.err, h |-> r.h, b |-> b]
    ELSE LET g == BalancesGet(b, agent_id)
         IN  IF g.err # "Ok"
             THEN [err |-> g.err, h |-> h, b |-> b]
             ELSE IF g.val < strike_price
             THEN [err |-> "Unspendable", h |-> h, b |-> b]
             ELSE LET a == BalancesAdd(b, agent_id, 0 - (strike_price * qty))
                  IN  [err |-> a.err, h |-> h, b |-> a.b]

\* agents.rs 510-519, the collateral step of Agents::trade.
Collateral(h, b, agent_id, company_id, strike_price, qty, action) ==
    IF action = "Sell"
    THEN LET r == HoldingsPop(h, agent_id, company_id, qty)
         IN  [err |-> r.err, h |-> r.h, b |-> b]
    ELSE LET g == BalancesGet(b, agent_id)
         IN  IF g.err # "Ok"
             THEN [err |-> g.err, h |-> h, b |-> b]
             ELSE IF g.val < strike_price * qty
             THEN [err |-> "Unspendable", h |-> h, b |-> b]
             ELSE LET a == BalancesAdd(b, agent_id, 0 - (strike_price * qty))
                  IN  [err |-> a.err, h |-> h, b |-> a.b]

\* Mutant: the cash goes to the first party of the transaction.
exchange_currency_to_first_party(h, b, transaction) ==
    LET p == HoldingsPopFromTxn(h, transaction.buyer_id, transaction)
    IN  IF p.err # "Ok"
        THEN [err |-> p.err, h |-> h, b |-> b]
        ELSE LET a == BalancesAdd(b, transaction.buyer_id,
                                  transaction.strike_price * transaction.number_of_shares)
             IN  [err |-> a.err, h |-> p.h, b |-> a.b]

\* agents.rs 536-548.
exchange_currency_from_transaction(h, b, transaction) ==
    LET p == HoldingsPopFromTxn(h, transaction.buyer_id, transaction)
    IN  IF p.err # "Ok"
        THEN [err |-> p.err, h |-> h, b |-> b]
        ELSE LET a == BalancesAdd(b, transaction.seller_id,
                                  transaction.strike_price * transaction.number_of_shares)
             IN  [err |-> a.err, h |-> p.h, b |-> a.b]

\* Mutant: a failed settlement gives the collateral back.
handle_action_state_refunding(h0, b0, h, b, answer) ==
    IF answer.kind = "AddedToOffers"
    THEN [err |-> "Ok", h |-> h, b |-> b]
    ELSE LET s == exchange_currency_from_transaction(h, b, answer.txn)
         IN  IF s.err # "Ok" THEN [err |-> s.err, h |-> h0, b |-> b0] ELSE s

\* agents.rs 549-567.
handle_action_state(h, b, answer) ==
    IF answer.kind = "AddedToOffers"
    THEN [err |-> "Ok", h |-> h, b |-> b]
    ELSE exchange_currency_from_transaction(h, b, answer.txn)

\* accept: rng.gen_ratio(7, 10) was false; pick: the index random chose.
handle_offer_idxs(bk, accept, pick, agent_id, company_id, strike_price, qty, action) ==
    IF ~accept
    THEN bk
    ELSE MarketTradeOffer(bk, pick, agent_id, company_id, strike_price, qty, action)

\* Mutant of trade: the collateral is released when the settlement fails.
trade_with_rollback(h, b, answer, accept, pick, agent_id, company_id, strike_price, qty, action) ==
    LET c == Collateral(h, b, agent_id, company_id, strike_price, qty, action)
    IN  IF c.err # "Ok"
        THEN [err |-> c.err, h |-> c.h, b |-> c.b, book |-> answer.book]
        ELSE IF answer.kind = "Candidates"
        THEN [err |-> "Ok", h |-> c.h, b |-> c.b,
              book |-> handle_offer_idxs(answer.book, accept, pick, agent_id, company_id,
                                         strike_price, qty, action)]
        ELSE LET s == handle_action_state_refunding(h, b, c.h, c.b, answer)
             IN  [err |-> s.err, h |-> s.h, b |-> s.b, book |-> answer.book]

\* Mutant of trade: the Transaction of an accepted candidate is settled.
trade_settling_candidates(h, b, answer, accept, pick, agent_id, company_id, strike_price, qty, action) ==
    LET c == Collateral(h, b, agent_id, company_id, strike_price, qty, action)
    IN  IF c.err # "Ok"
        THEN [err |-> c.err, h |-> c.h, b |-> c.b, book |-> answer.book]
        ELSE IF answer.kind = "Candidates"
        THEN LET offer == answer.book[pick]
                 t == NewTransaction(agent_id, action, offer,
                                     Min(qty, offer.number_of_shares),
                                     offer.strike_price, action = "Buy")
                 s == IF accept
                      THEN exchange_currency_from_transaction(c.h, c.b, t)
                      ELSE [err |-> "Ok", h |-> c.h, b |-> c.b]
             IN  [err |-> "Ok", h |-> s.h, b |-> s.b,
                  book |-> handle_offer_idxs(answer.book, accept, pick, agent_id,
                                             company_id, strike_price, qty, action)]
        ELSE LET s == handle_action_state(c.h, c.b, answer)
             IN  [err |-> s.err, h |-> s.h, b |-> s.b, book |-> answer.book]

\* Agents::trade after market.trade has answered (agents.rs 502-509).
trade(h, b, answer, accept, pick, agent_id, company_id, strike_price, qty, action) ==
    LET c == Collateral(h, b, agent_id, company_id, strike_price, qty, action)
    IN  IF c.err # "Ok"
        THEN [err |-> c.err, h |-> c.h, b |-> c.b, book |-> answer.book]
        ELSE IF answer.kind = "Candidates"
        THEN [err |-> "Ok", h |-> c.h, b |-> c.b,
              book |-> handle_offer_idxs(answer.book, accept, pick, agent_id, company_id,
                                         strike_price, qty, action)]
        ELSE LET s == handle_action_state(c.h, c.b, answer)
             IN  [err |-> s.err, h |-> s.h, b |-> s.b, book |-> answer.book]

(* ----------------------- Agents: expiry handling ----------------------- *)

MapInsert(m, key, value) ==
    [k \in DOMAIN m \cup {key} |-> IF k = key THEN value ELSE m[k]]

\* Mutant: the retry price scaled by 1.25 on both sides.
add_failed_offer_scaled(t, company_id, agent_id, failed_price, offer_type) ==
    LET price == IF offer_type = "Buy" THEN failed_price ELSE 0 - failed_price
    IN  MapInsert(t, combine(agent_id, company_id), price + Quarter(price))

add_failed_offer(t, company_id, agent_id, failed_price, offer_type) ==
    LET price == IF offer_type = "Buy" THEN failed_price ELSE 0 - failed_price
    IN  MapInsert(t, combine(agent_id, company_id), price + Quarter(failed_price))

\* Mutant: a refund of the strike price, not of strike price times quantity.
RefundOfferOnce(st, company_id, offer) ==
    IF offer.action = "Sell"
    THEN [st EXCEPT !.h = HoldingsPush(@, offer.lifetime, company_id, offer.number_of_shares)]
    ELSE LET a == BalancesAdd(st.b, offer.offerer_id, offer.strike_price)
         IN  [st EXCEPT !.err = a.err, !.b = a.b]

\* The refund of one expired offer (agents.rs 379-390, 403-414).
RefundOffer(st, company_id, offer) ==
    IF offer.action = "Sell"
    THEN [st EXCEPT !.h = HoldingsPush(@, offer.lifetime, company_id, offer.number_of_shares)]
    ELSE LET a == BalancesAdd(st.b, offer.offerer_id,
                              offer.strike_price * offer.number_of_shares)
         IN  [st EXCEPT !.err = a.err, !.b = a.b]

\* One iteration of the inner loops of alert_agents; an error ends the call.
AlertOffer(st, company_id, offer) ==
    IF st.err # "Ok"
    THEN st
    ELSE LET r == RefundOffer(st, company_id, offer)
         IN  IF r.err # "Ok"
             THEN r
             ELSE [r EXCEPT !.t = add_failed_offer(@, company_id, offer.offerer_id,
                                                   offer.strike_price, offer.action)]

RECURSIVE AlertOffers(_, _, _)
AlertOffers(st, company_id, offers) ==
    IF offers = <<>>
    THEN st
    ELSE AlertOffers(AlertOffer(st, company_id, Head(offers)), company_id, Tail(offers))

\* The outer loops: the companies of the map, here in ascending order (the
\* refunds of different companies commute, and their retry keys differ).
RECURSIVE AlertCompanies(_, _, _)
AlertCompanies(st, expired, companies) ==
    IF companies = {}
    THEN st
    ELSE LET c == CHOOSE x \in companies : \A y \in companies : x <= y
         IN  AlertCompanies(AlertOffers(st, c, expired[c]), expired, companies \ {c})

alert_agents(h, b, t, expired_tr, expired_op) ==
    AlertCompanies(
        AlertCompanies([err |-> "Ok", h |-> h, b |-> b, t |-> t], expired_tr, CompanyIds),
        expired_op, CompanyIds)

(* ------------------------ Agents: initial assets ----------------------- *)

RECURSIVE GiveAssets(_, _, _, _, _)
\* The loop of give_random_assets over the agents not yet served, in ascending
\* order: amounts[i] and companies[i] are what the passed generator gives for
\* agent i, shares[i] is random::<u64>() % 1000, drawn from the global source.
GiveAssets(st, agents, amounts, companies, shares) ==
    IF agents = {} \/ st.err # "Ok"
    THEN st
    ELSE LET i == CHOOSE x \in agents : \A y \in agents : x <= y
             a == BalancesAdd(st.b, i, amounts[i])
         IN  IF a.err # "Ok"
             THEN [st EXCEPT !.err = a.err]
             ELSE GiveAssets([err |-> "Ok", b |-> a.b,
                              h |-> HoldingsPush(st.h, i, companies[i], shares[i])],
                             agents \ {i}, amounts, companies, shares)

give_random_assets(h, b, amounts, companies, shares) ==
    GiveAssets([err |-> "Ok", h |-> h, b |-> b], AgentIds, amounts, companies, shares)

(* ------------------------------ Timeline ------------------------------- *)

\* (company_id, TradeAction) pairs the model passes to Timeline::add.
TimelineEvents == {<<0, "Buy">>, <<1, "Sell">>}

\* Long enough for an add that overflows the buffer twice over.
MaxIncoming == TIMELINE_SIZE_LIMIT + 2

Incoming == UNION {[1 .. n -> TimelineEvents] : n \in 0 .. MaxIncoming}

\* The last n elements of s (all of s when it is shorter).
LastN(s, n) == IF Len(s) <= n THEN s ELSE SubSeq(s, Len(s) - n + 1, Len(s))

\* Slot i of the code (0-based) is data[i + 1] here.
Slot(tl, i) == tl.data[i + 1]

\* Mutant: add without the capacity tests, a plain extend.
TimelineAddUnbounded(tl, data) ==
    [err |-> "Ok", tl |-> [tl EXCEPT !.data = @ \o data]]

\* Mutant: the incoming events that fit are put in front of the old content.
TimelineAddInFront(tl, data) ==
    IF Len(tl.data) < TIMELINE_SIZE_LIMIT /\ Len(data) + Len(tl.data) <= TIMELINE_SIZE_LIMIT
    THEN [err |-> "Ok", tl |-> [tl EXCEPT !.data = data \o @]]
    ELSE TimelineAddUnbounded([tl EXCEPT !.data = <<>>],
                              LastN(tl.data \o data, TIMELINE_SIZE_LIMIT))

\* Mutant: on a full buffer every incoming event is written, the later ones
\* over the earlier ones.
TimelineAddWritesAll(tl, data) ==
    IF Len(tl.data) = TIMELINE_SIZE_LIMIT
    THEN [err |-> "Ok",
          tl |-> [tl EXCEPT !.data =
                    [j \in 1 .. Len(tl.data) |->
                        LET hits == {i \in 0 .. (Len(data) - 1) :
                                        (i + tl.target_index) % TIMELINE_SIZE_LIMIT = j - 1}
                        IN  IF hits = {}
                            THEN tl.data[j]
                            ELSE data[(CHOOSE i \in hits : \A x \in hits : x <= i) + 1]]]]
    ELSE IF Len(data) + Len(tl.data) <= TIMELINE_SIZE_LIMIT
    THEN [err |-> "Ok", tl |-> [tl EXCEPT !.data = @ \o data]]
    ELSE LET extend_size == TIMELINE_SIZE_LIMIT - Len(tl.data)
             destination_index == Len(data) - extend_size
             extended == tl.data \o SubSeq(data, 1, extend_size)
         IN  IF destination_index > Len(extended)
             THEN [err |-> "Panic", tl |-> [tl EXCEPT !.data = extended]]
             ELSE [err |-> "Ok",
                   tl |-> [data |-> [j \in 1 .. Len(extended) |->
                                        IF j <= destination_index
                                        THEN data[extend_size + j]
                                        ELSE extended[j]],
                           target_index |-> destination_index]]

\* Timeline::add; err is "Panic" where the slice of line 157 is out of range.
TimelineAdd(tl, data) ==
    LET len == Len(tl.data)
        k == Len(data)
    IN  IF len = TIMELINE_SIZE_LIMIT
        THEN [err |-> "Ok",
              tl |-> [tl EXCEPT !.data =
                        [j \in 1 .. len |->
                            LET i == ((j - 1) - tl.target_index) % TIMELINE_SIZE_LIMIT
                            IN  IF i < Min(k, len) THEN data[i + 1] ELSE tl.data[j]]]]
        ELSE IF k + len <= TIMELINE_SIZE_LIMIT
        THEN [err |-> "Ok", tl |-> [tl EXCEPT !.data = @ \o data]]
        ELSE LET extend_size == TIMELINE_SIZE_LIMIT - len
                 destination_index == k - extend_size
                 extended == tl.data \o SubSeq(data, 1, extend_size)
             IN  IF destination_index > Len(extended)
                 THEN [err |-> "Panic", tl |-> [tl EXCEPT !.data = extended]]
                 ELSE [err |-> "Ok",
                       tl |-> [data |-> [j \in 1 .. Len(extended) |->
                                            IF j <= destination_index
                                            THEN data[extend_size + j]
                                            ELSE extended[j]],
                               target_index |-> destination_index]]

\* Mutant: get_rng that always answers with the last slot.
get_rng_last_slot(tl, index) ==
    IF tl.data = <<>>
    THEN [err |-> "NoData", val |-> <<>>]
    ELSE [err |-> "Ok", val |-> Slot(tl, Len(tl.data) - 1)]

\* Timeline::get_rng with index = rng.gen_range(0..len).
get_rng(tl, index) ==
    IF tl.data = <<>>
    THEN [err |-> "NoData", val |-> <<>>]
    ELSE [err |-> "Ok", val |-> Slot(tl, index)]

\* The indices gen_range may draw in recency_bias, by the branch taken.
RecencyIndices(tl, bias_size) ==
    IF bias_size >= Len(tl.data)
    THEN IF tl.data = <<>> THEN {0} ELSE 0 .. (Len(tl.data) - 1)
    ELSE 0 .. (bias_size - 1)

\* Mutant: a window as large as the buffer answers with slot 0.
recency_bias_first_slot(tl, bias_size, index) ==
    IF bias_size >= Len(tl.data)
    THEN get_rng(tl, 0)
    ELSE IF bias_size < tl.target_index
    THEN [err |-> "Ok", val |-> Slot(tl, index + (tl.target_index - bias_size))]
    ELSE IF index < tl.target_index
    THEN [err |-> "Ok", val |-> Slot(tl, index)]
    ELSE [err |-> "Ok", val |-> Slot(tl, Len(tl.data) - (index - tl.target_index) - 1)]

\* The slot recency_bias reads when bias_size < len (agents.rs 175-182).
recency_slot(tl, bias_size, index) ==
    IF bias_size < tl.target_index
    THEN index + (tl.target_index - bias_size)
    ELSE IF index < tl.target_index
    THEN index
    ELSE Len(tl.data) - (index - tl.target_index) - 1

\* Timeline::recency_bias with the index the generator drew.
recency_bias(tl, bias_size, index) ==
    IF bias_size >= Len(tl.data)
    THEN get_rng(tl, index)
    ELSE [err |-> "Ok", val |-> Slot(tl, recency_slot(tl, bias_size, index))]

(* ----------------------------- Preferences ----------------------------- *)

\* vec![item; n]
Copies(item, n) == [j \in 1 .. n |-> item]

\* Mutant: add that records the interest as a Sell.
PreferencesAddAsSell(prefs, agent_id, company_id, preference) ==
    IF agent_id \notin DOMAIN prefs
    THEN [err |-> "AgentNotFound", prefs |-> prefs]
    ELSE LET r == TimelineAdd(prefs[agent_id], Copies(<<company_id, "Sell">>, preference))
         IN  [err |-> r.err, prefs |-> [prefs EXCEPT ![agent_id] = r.tl]]

\* Preferences::add: self.0.get_mut(agent_id) is None off the table.
PreferencesAdd(prefs, agent_id, company_id, preference) ==
    IF agent_id \notin DOMAIN prefs
    THEN [err |-> "AgentNotFound", prefs |-> prefs]
    ELSE LET r == TimelineAdd(prefs[agent_id], Copies(<<company_id, "Buy">>, preference))
         IN  [err |-> r.err, prefs |-> [prefs EXCEPT ![agent_id] = r.tl]]

\* Mutant: sub that lands in the Timeline of agent 0.
PreferencesSubFirstAgent(prefs, agent_id, company_id, preference) ==
    IF agent_id \notin DOMAIN prefs
    THEN [err |-> "AgentNotFound", prefs |-> prefs]
    ELSE LET r == TimelineAdd(prefs[0], Copies(<<company_id, "Sell">>, preference))
         IN  [err |-> r.err, prefs |-> [prefs EXCEPT ![0] = r.tl]]

\* Preferences::sub
PreferencesSub(prefs, agent_id, company_id, preference) ==
    IF agent_id \notin DOMAIN prefs
    THEN [err |-> "AgentNotFound", prefs |-> prefs]
    ELSE LET r == TimelineAdd(prefs[agent_id], Copies(<<company_id, "Sell">>, preference))
         IN  [err |-> r.err, prefs |-> [prefs EXCEPT ![agent_id] = r.tl]]

\* Preferences::get_preferred_random with the index get_rng draws.
get_preferred_random(prefs, agent_id, index) ==
    IF agent_id \notin DOMAIN prefs
    THEN [err |-> "AgentNotFound", val |-> <<>>]
    ELSE get_rng(prefs[agent_id], index)

(* ------------------------------- state --------------------------------- *)

Snapshot == [holdings |-> holdings, balances |-> balances,
             try_offers |-> try_offers, book |-> book]

Init ==
    /\ holdings = [k \in {combine(a, 0) : a \in AgentIds} |-> InitShares]
    /\ balances = [a \in AgentIds |-> InitBalance]
    /\ try_offers = <<>>
    /\ book = <<>>
    /\ steps = 0
    /\ timeline = [data |-> <<>>, target_index |-> 0]
    /\ added = <<>>
    /\ total = 0
    /\ preferences = [a \in AgentIds |-> [data |-> <<>>, target_index |-> 0]]
    /\ last = [op |-> "init"]
    /\ pre = [holdings |-> holdings, balances |-> balances,
              try_offers |-> try_offers, book |-> book]

(* ------------------------- actions: the ledger ------------------------- *)

Push(agent_id, company_id, n) ==
    /\ HoldingsGet(holdings, agent_id, company_id) + n <= MaxShares
    /\ holdings' = HoldingsPush(holdings, agent_id, company_id, n)
    /\ last' = [op |-> "push", agent_id |-> agent_id, company_id |-> company_id,
                n |-> n, err |-> "Ok"]
    /\ pre' = Snapshot
    /\ UNCHANGED <<balances, try_offers, book, steps, timelineVars>>

Pop(agent_id, company_id, n) ==
    LET r == HoldingsPop(holdings, agent_id, company_id, n)
    IN  /\ holdings' = r.h
        /\ last' = [op |-> "pop", agent_id |-> agent_id, company_id |-> company_id,
                    n |-> n, err |-> r.err]
        /\ pre' = Snapshot
        /\ UNCHANGED <<balances, try_offers, book, steps, timelineVars>>

LedgerNext ==
    \/ \E a \in AgentIds, c \in CompanyIds, n \in 0 .. MaxShares : Push(a, c, n)
    \/ \E a \in AgentIds, c \in CompanyIds, n \in 0 .. MaxShares : Pop(a, c, n)

SpecLedger == Init /\ [][LedgerNext]_vars

(* ------------------------ actions: the KeyCodec ------------------------ *)

Words == 0 .. (Word - 1)

\* combine(a, b); `other` keeps the call before it when that was a combine too.
Combine(a, b) ==
    /\ last' = [op |-> "combine", a |-> a, b |-> b, key |-> combine(a, b),
                other |-> IF last.op = "combine"
                          THEN [op |-> "combine", a |-> last.a, b |-> last.b, key |-> last.key]
                          ELSE [op |-> "none"]]
    /\ UNCHANGED <<engineVars, timelineVars, pre>>

\* get_first / get_second of the key the last combine made.
GetFirst ==
    /\ last.op = "combine"
    /\ last' = [op |-> "get_first", a |-> last.a, b |-> last.b, key |-> last.key,
                val |-> get_first(last.key)]
    /\ UNCHANGED <<engineVars, timelineVars, pre>>

GetSecond ==
    /\ last.op = "combine"
    /\ last' = [op |-> "get_second", a |-> last.a, b |-> last.b, key |-> last.key,
                val |-> get_second(last.key)]
    /\ UNCHANGED <<engineVars, timelineVars, pre>>

CodecNext ==
    \/ \E a \in Words, b \in Words : Combine(a, b)
    \/ GetFirst
    \/ GetSecond

SpecCodec == Init /\ [][CodecNext]_vars

(* ------------------------ actions: the Timeline ------------------------ *)

Alive == ~("err" \in DOMAIN last /\ last.err = "Panic")

Add(data) ==
    LET r == TimelineAdd(timeline, data)
    IN  /\ Alive
        /\ timeline' = r.tl
        /\ added' = LastN(added \o data, TIMELINE_SIZE_LIMIT)
        /\ total' = Min(total + Len(data), TIMELINE_SIZE_LIMIT + 1)
        /\ last' = [op |-> "add", data |-> data, err |-> r.err, before |-> timeline]
        /\ UNCHANGED <<engineVars, preferences, pre>>

GetRng(index) ==
    LET r == get_rng(timeline, index)
    IN  /\ Alive
        /\ last' = [op |-> "get_rng", index |-> index, err |-> r.err, val |-> r.val,
                    before |-> timeline]
        /\ UNCHANGED <<engineVars, timelineVars, pre>>

RecencyBias(bias_size, index) ==
    LET r == recency_bias(timeline, bias_size, index)
    IN  /\ Alive
        /\ last' = [op |-> "recency_bias", bias_size |-> bias_size, index |-> index,
                    err |-> r.err, val |-> r.val]
        /\ UNCHANGED <<engineVars, timelineVars, pre>>

TimelineNext ==
    \/ \E data \in Incoming : Add(data)
    \/ \E index \in RecencyIndices(timeline, Len(timeline.data)) : GetRng(index)
    \/ \E bias_size \in 1 .. (TIMELINE_SIZE_LIMIT + 1) :
          \E index \in RecencyIndices(timeline, bias_size) : RecencyBias(bias_size, index)

SpecTimeline == Init /\ [][TimelineNext]_vars

(* ---------------------- actions: the Preferences ----------------------- *)

\* The agent ids a caller may pass: those of the table and one past its end.
PreferenceAgents == AgentIds \cup {Cardinality(AgentIds)}

\* The companies whose events the table is given.
PreferenceCompanies == CompanyIds

\* Weights: nothing, one event, a full buffer, one more than that, and one more
\* than add can take on an empty Timeline.
PreferenceWeights ==
    {0, 1, TIMELINE_SIZE_LIMIT, TIMELINE_SIZE_LIMIT + 1, 2 * TIMELINE_SIZE_LIMIT + 1}

PrefAdd(agent_id, company_id, preference) ==
    LET r == PreferencesAdd(preferences, agent_id, company_id, preference)
    IN  /\ Alive
        /\ steps < MaxSteps
        /\ preferences' = r.prefs
        /\ last' = [op |-> "pref_add", agent_id |-> agent_id, company_id |-> company_id,
                    preference |-> preference, err |-> r.err, before |-> preferences]
        /\ steps' = steps + 1
        /\ UNCHANGED <<holdings, balances, try_offers, book, timeline, added, total, pre>>

PrefSub(agent_id, company_id, preference) ==
    LET r == PreferencesSub(preferences, agent_id, company_id, preference)
    IN  /\ Alive
        /\ steps < MaxSteps
        /\ preferences' = r.prefs
        /\ last' = [op |-> "pref_sub", agent_id |-> agent_id, company_id |-> company_id,
                    preference |-> preference, err |-> r.err, before |-> preferences]
        /\ steps' = steps + 1
        /\ UNCHANGED <<holdings, balances, try_offers, book, timeline, added, total, pre>>

\* The indices gen_range may draw for the agent's Timeline.
PreferredIndices(agent_id) ==
    IF agent_id \in DOMAIN preferences
    THEN RecencyIndices(preferences[agent_id], Len(preferences[agent_id].data))
    ELSE {0}

GetPreferredRandom(agent_id, index) ==
    LET r == get_preferred_random(preferences, agent_id, index)
    IN  /\ Alive
        /\ last' = [op |-> "get_preferred_random", agent_id |-> agent_id, index |-> index,
                    err |-> r.err, val |-> r.val, before |-> preferences]
        /\ UNCHANGED <<engineVars, timelineVars, pre>>

PreferencesNext ==
    \/ \E a \in PreferenceAgents, c \in PreferenceCompanies, w \in PreferenceWeights : PrefAdd(a, c, w)
    \/ \E a \in PreferenceAgents, c \in PreferenceCompanies, w \in PreferenceWeights : PrefSub(a, c, w)
    \/ \E a \in PreferenceAgents : \E index \in PreferredIndices(a) : GetPreferredRandom(a, index)

SpecPreferences == Init /\ [][PreferencesNext]_vars

(* --------------------- actions: the initial assets --------------------- *)

\* rng.gen_range(0.0..1000.0): nothing or one currency unit, in quarters.
AssetAmounts == {0, 4}

\* random::<u64>() % 1000: no share or one.
AssetShares == {0, 1}

\* Agents::give_random_assets.  `amounts` and `companies` are the draws of the
\* passed generator, which `last` records; `shares` comes from the global one.
GiveRandomAssets(amounts, companies, shares) ==
    LET r == give_random_assets(holdings, balances, amounts, companies, shares)
    IN  /\ steps < MaxSteps
        /\ \A a \in DOMAIN r.b : r.b[a] <= MaxBalance
        /\ \A k \in DOMAIN r.h : r.h[k] <= MaxShares
        /\ holdings' = r.h
        /\ balances' = r.b
        /\ last' = [op |-> "give_random_assets",
                    rng |-> [amounts |-> amounts, companies |-> companies],
                    err |-> r.err]
        /\ pre' = Snapshot
        /\ steps' = steps + 1
        /\ UNCHANGED <<try_offers, book, timelineVars>>

AssetsNext ==
    \E amounts \in [AgentIds -> AssetAmounts], companies \in [AgentIds -> CompanyIds],
       shares \in [AgentIds -> AssetShares] : GiveRandomAssets(amounts, companies, shares)

SpecAssets == Init /\ [][AssetsNext]_vars

(* ---------------------- Agents: retries and batches -------------------- *)

\* Tolerance band do_transactions passes to trade (5.0), in quarters.
Deviation == 20

\* A TodoTransactions value.
TodoTransaction(agent_id, company_id, strike_price, action, number_of_shares) ==
    [agent_id |-> agent_id, company_id |-> company_id, strike_price |-> strike_price,
     action |-> action, number_of_shares |-> number_of_shares]

can_buy(b, agent_id, price, quantity) ==
    LET g == BalancesGet(b, agent_id)
    IN  [err |-> g.err, val |-> g.err = "Ok" /\ g.val >= price * quantity]

can_sell(h, id, quantity) == HoldingsGetU128(h, id) >= quantity

\* Mutant: every retried entry becomes an intent, feasible or not.
RECURSIVE try_failed_offers_unfiltered(_, _, _, _, _)
try_failed_offers_unfiltered(h, b, t, retried, number_of_shares) ==
    IF retried = <<>>
    THEN [err |-> "Ok", transactions |-> <<>>]
    ELSE LET id == Head(retried)
             new_price == t[id]
             action == IF new_price > 0 THEN "Buy" ELSE "Sell"
             price == IF new_price > 0 THEN new_price ELSE 0 - new_price
             rest == try_failed_offers_unfiltered(h, b, t, Tail(retried), number_of_shares)
         IN  [err |-> rest.err,
              transactions |-> <<TodoTransaction(get_first(id), get_second(id), price,
                                                 action, number_of_shares)>>
                               \o rest.transactions]

\* Agents::try_failed_offers.  retried: the keys of the retry pool for which
\* rng.gen_ratio(6, 10) was false, in the order the map iterates them.  The
\* result is what the call appends to `transactions`, up to an error of can_buy.
RECURSIVE try_failed_offers(_, _, _, _, _)
try_failed_offers(h, b, t, retried, number_of_shares) ==
    IF retried = <<>>
    THEN [err |-> "Ok", transactions |-> <<>>]
    ELSE LET id == Head(retried)
             new_price == t[id]
             action == IF new_price > 0 THEN "Buy" ELSE "Sell"
             price == IF new_price > 0 THEN new_price ELSE 0 - new_price
             g == can_buy(b, get_first(id), price, number_of_shares)
         IN  IF action = "Buy" /\ g.err # "Ok"
             THEN [err |-> g.err, transactions |-> <<>>]
             ELSE LET can_transact == IF action = "Buy"
                                      THEN g.val
                                      ELSE can_sell(h, id, number_of_shares)
                      rest == try_failed_offers(h, b, t, Tail(retried), number_of_shares)
                  IN  [err |-> rest.err,
                       transactions |->
                           (IF can_transact
                            THEN <<TodoTransaction(get_first(id), get_second(id), price,
                                                   action, number_of_shares)>>
                            ELSE <<>>) \o rest.transactions]

\* What one call of Agents::trade may leave: the market's answer, the 30%
\* draw of handle_offer_idxs and its pick are free.
TradeOutcomes(h, b, bk, todo_transaction) ==
    UNION {UNION {
        {trade(h, b, answer, accept, pick, todo_transaction.agent_id,
               todo_transaction.company_id, todo_transaction.strike_price,
               todo_transaction.number_of_shares, todo_transaction.action)
            : pick \in IF answer.kind = "Candidates" /\ accept THEN answer.idxs ELSE {0}}
        : accept \in IF answer.kind = "Candidates" THEN BOOLEAN ELSE {FALSE}}
        : answer \in MarketTrade(bk, todo_transaction.agent_id, todo_transaction.company_id,
                                 todo_transaction.strike_price, Deviation,
                                 todo_transaction.number_of_shares,
                                 todo_transaction.action)}

\* Mutant: a failing trade is skipped and the batch goes on.
RECURSIVE do_transactions_skipping(_, _, _, _, _)
do_transactions_skipping(h, b, bk, transactions, calls) ==
    IF transactions = <<>>
    THEN {[err |-> "Ok", h |-> h, b |-> b, book |-> bk, calls |-> calls]}
    ELSE UNION {do_transactions_skipping(r.h, r.b, r.book, Tail(transactions),
                                         Append(calls, r))
                   : r \in TradeOutcomes(h, b, bk, Head(transactions))}

\* Agents::do_transactions: the runs of the loop, trade by trade.  calls is the
\* list of the trade calls made so far, each with the state it left.
RECURSIVE do_transactions(_, _, _, _, _)
do_transactions(h, b, bk, transactions, calls) ==
    IF transactions = <<>>
    THEN {[err |-> "Ok", h |-> h, b |-> b, book |-> bk, calls |-> calls]}
    ELSE UNION {IF r.err # "Ok"
                THEN {[err |-> r.err, h |-> r.h, b |-> r.b, book |-> r.book,
                       calls |-> Append(calls, r)]}
                ELSE do_transactions(r.h, r.b, r.book, Tail(transactions),
                                     Append(calls, r))
                   : r \in TradeOutcomes(h, b, bk, Head(transactions))}

(* ------------------------- actions: the engine ------------------------- *)

\* Agents::trade: market.trade answers first (agents.rs 502), then the
\* collateral step and the settlement.
Trade(agent_id, company_id, strike_price, qty, action) ==
    /\ steps < MaxSteps
    /\ \E answer \in MarketTrade(book, agent_id, company_id, strike_price,
                                 Deviation, qty, action) :
       \E accept \in IF answer.kind = "Candidates" THEN BOOLEAN ELSE {FALSE} :
       \E pick \in IF answer.kind = "Candidates" /\ accept THEN answer.idxs ELSE {0} :
          LET r == trade(holdings, balances, answer, accept, pick, agent_id, company_id,
                         strike_price, qty, action)
          IN  /\ holdings' = r.h
              /\ balances' = r.b
              /\ book' = r.book
              /\ last' = [op |-> "trade", agent_id |-> agent_id, company_id |-> company_id,
                          strike_price |-> strike_price, qty |-> qty, action |-> action,
                          answer |-> answer.kind, txn |-> answer.txn,
                          accept |-> accept, err |-> r.err]
              /\ pre' = Snapshot
              /\ steps' = steps + 1
              /\ UNCHANGED <<try_offers, timelineVars>>

\* The expired offer the market hands back for a queued one: FailedOffer(Offer, action).
FailedOffer(offer, lifetime) ==
    [offerer_id |-> offer.offerer_id, strike_price |-> offer.strike_price,
     number_of_shares |-> offer.number_of_shares, lifetime |-> lifetime,
     action |-> offer.action]

RECURSIVE ExpiredOf(_, _, _, _)
\* The offers of bk for company c whose index is in S, in book order.
ExpiredOf(bk, S, life, c) ==
    IF bk = <<>>
    THEN <<>>
    ELSE LET i == Len(bk)
             front == ExpiredOf(SubSeq(bk, 1, i - 1), S, life, c)
         IN  IF i \in S /\ bk[i].company_id = c
             THEN Append(front, FailedOffer(bk[i], life[i]))
             ELSE front

RECURSIVE Remaining(_, _)
Remaining(bk, S) ==
    IF bk = <<>>
    THEN <<>>
    ELSE LET i == Len(bk)
             front == Remaining(SubSeq(bk, 1, i - 1), S)
         IN  IF i \in S THEN front ELSE Append(front, bk[i])

\* Market::tick_failures (main.rs 107): the queued offers with index in S expire
\* and are handed back by company, each with the lifetime counter it has left.
TickFailures(bk, S, life) == [c \in CompanyIds |-> ExpiredOf(bk, S, life, c)]

\* An expired option offer: one share of company 0, offered by agent 1.
OptionOffers ==
    [offerer_id : {1}, strike_price : StrikePrices, number_of_shares : {1},
     lifetime : 0 .. MaxLifetime, action : TradeActions]

\* What one tick hands back: the trade offers with index in S expired, or one
\* option offer did.
ExpiredBatches(bk) ==
    {[S |-> S, life |-> life, options |-> EmptyExpired] :
        S \in SUBSET (1 .. Len(bk)), life \in [1 .. Len(bk) -> 0 .. MaxLifetime]}
    \cup
    {[S |-> {}, life |-> [i \in 1 .. Len(bk) |-> 0],
      options |-> [c \in CompanyIds |-> IF c = 0 THEN <<o>> ELSE <<>>]] : o \in OptionOffers}

\* main.rs 107-116: the market hands back the offers that expired, alert_agents
\* handles them, and main clears them.
AlertAgents(S, life, expired_options) ==
    LET expired_trades == TickFailures(book, S, life)
        r == alert_agents(holdings, balances, try_offers, expired_trades, expired_options)
    IN  /\ steps < MaxSteps
        /\ \A a \in DOMAIN r.b : r.b[a] <= MaxBalance
        /\ \A k \in DOMAIN r.h : r.h[k] <= MaxShares
        /\ holdings' = r.h
        /\ balances' = r.b
        /\ try_offers' = r.t
        /\ book' = Remaining(book, S)
        /\ last' = [op |-> "alert", expired_trades |-> expired_trades,
                    expired_options |-> expired_options, err |-> r.err,
                    newest |-> (S = {Len(book)}),
                    after |-> IF last.op = "trade"
                              THEN [trade |-> last, pre |-> pre]
                              ELSE [trade |-> [op |-> "none"], pre |-> pre]]
        /\ pre' = Snapshot
        /\ steps' = steps + 1
        /\ UNCHANGED timelineVars

Next ==
    \/ \E a \in AgentIds, c \in CompanyIds, p \in StrikePrices, q \in Quantities,
          action \in TradeActions : Trade(a, c, p, q, action)
    \/ \E batch \in ExpiredBatches(book) : AlertAgents(batch.S, batch.life, batch.options)

Spec == Init /\ [][Next]_vars

(* ------------------- actions: retries and batches ---------------------- *)

\* The sequences without repetition over the set S.
Arrangements(S) ==
    {s \in UNION {[1 .. n -> S] : n \in 0 .. Cardinality(S)} :
        \A i, j \in DOMAIN s : i # j => s[i] # s[j]}

\* Agents::try_failed_offers on the current retry pool (it takes &self).
TryFailedOffers(retried, number_of_shares) ==
    LET r == try_failed_offers(holdings, balances, try_offers, retried, number_of_shares)
    IN  /\ steps < MaxSteps
        /\ last' = [op |-> "try_failed_offers", retried |-> retried,
                    number_of_shares |-> number_of_shares,
                    err |-> r.err, transactions |-> r.transactions]
        /\ pre' = Snapshot
        /\ steps' = steps + 1
        /\ UNCHANGED <<holdings, balances, try_offers, book, timelineVars>>

\* The intents a batch is drawn from.
TodoTransactions ==
    [agent_id : AgentIds, company_id : {0}, strike_price : StrikePrices,
     action : TradeActions, number_of_shares : {1, 2}]

\* The batches of at most n intents.
Batches(n) == UNION {[1 .. m -> TodoTransactions] : m \in 0 .. n}

\* Agents::do_transactions on a batch; every trade call it makes counts as a
\* step, and the call on an empty batch as one.
DoTransactions(transactions) ==
    /\ steps < MaxSteps
    /\ steps + Len(transactions) <= MaxSteps
    /\ \E r \in do_transactions(holdings, balances, book, transactions, <<>>) :
          /\ holdings' = r.h
          /\ balances' = r.b
          /\ book' = r.book
          /\ last' = [op |-> "do_transactions", transactions |-> transactions,
                      calls |-> r.calls, err |-> r.err]
          /\ pre' = Snapshot
          /\ steps' = IF r.calls = <<>> THEN steps + 1 ELSE steps + Len(r.calls)
          /\ UNCHANGED <<try_offers, timelineVars>>

\* A direct call of trade is the batch of one intent.
BatchNext ==
    \/ \E batch \in ExpiredBatches(book) : AlertAgents(batch.S, batch.life, batch.options)
    \/ \E retried \in Arrangements(DOMAIN try_offers), q \in Quantities :
          TryFailedOffers(retried, q)
    \/ \E transactions \in Batches(MaxSteps - steps) : DoTransactions(transactions)

SpecBatch == Init /\ [][BatchNext]_vars

(* ------------------------------- claims -------------------------------- *)

Keys == {combine(a, c) : a \in 0 .. (Word - 1), c \in CompanyIds}

\* Every ledger count but the one of (agent_id, company_id) is as before the call.
OthersUnchanged(agent_id, company_id) ==
    \A k \in Keys \ {combine(agent_id, company_id)} :
        HoldingsGetU128(holdings, k) = HoldingsGetU128(pre.holdings, k)

\* C1: Holdings.pop(agent, company, n) returns Unspendable if and only if
\* get(agent, company) < n, for every n >= 0 and also on a position that was
\* never pushed; a failing pop changes no ledger entry, a successful one
\* decreases the count by exactly n and changes no other entry.
C1_PopUnspendableIff ==
    last.op = "pop" =>
        LET before == HoldingsGet(pre.holdings, last.agent_id, last.company_id)
            after == HoldingsGet(holdings, last.agent_id, last.company_id)
        IN  /\ (last.err = "Unspendable") <=> (before < last.n)
            /\ last.err = "Unspendable" => holdings = pre.holdings
            /\ last.err = "Ok" =>
                  /\ after = before - last.n
                  /\ OthersUnchanged(last.agent_id, last.company_id)

\* The values recency_bias can return for bias_size.
RecencyValues(tl, bias_size) ==
    {recency_bias(tl, bias_size, index).val : index \in RecencyIndices(tl, bias_size)}

\* The n entries most recently passed to Timeline::add.
MostRecent(n) == {added[j] : j \in (Len(added) - n + 1) .. Len(added)}

\* C10: for a non-empty Timeline reached by add calls and every bias_size with
\* 1 <= bias_size < length, the values recency_bias can return are exactly the
\* bias_size most recently added entries.
C10_RecencyWindow ==
    Alive =>
        \A bias_size \in 1 .. (Len(timeline.data) - 1) :
            RecencyValues(timeline, bias_size) = MostRecent(bias_size)

(* The claims about Agents::trade read the call that `last` records, the
   state `pre` it started from and the state it left. *)

Resolved(kind) == kind \in {"InstantlyResolved", "PartiallyResolved"}

Cost == last.strike_price * last.qty

\* The collateral step of the recorded trade could not be paid.
CollateralFails ==
    \/ last.action = "Sell"
       /\ HoldingsGet(pre.holdings, last.agent_id, last.company_id) < last.qty
    \/ last.action = "Buy" /\ pre.balances[last.agent_id] < Cost

\* The ledger of `pre` with the count of (agent_id, company_id) lowered by n.
LedgerLess(h, agent_id, company_id, n) ==
    [k \in DOMAIN h |-> IF k = combine(agent_id, company_id) THEN h[k] - n ELSE h[k]]

\* The state the collateral lock of the recorded trade leaves, as C6 states it.
LockedHoldings ==
    IF last.action = "Sell"
    THEN LedgerLess(pre.holdings, last.agent_id, last.company_id, last.qty)
    ELSE pre.holdings

LockedBalances ==
    IF last.action = "Buy"
    THEN [pre.balances EXCEPT ![last.agent_id] = @ - Cost]
    ELSE pre.balances

\* The two parties of the recorded match, by the side each one took.
BuyingAgent ==
    IF last.action = "Buy"
    THEN last.agent_id
    ELSE CHOOSE a \in {last.txn.buyer_id, last.txn.seller_id} :
            a # last.agent_id \/ last.txn.buyer_id = last.txn.seller_id

\* C2: when a trade is matched into a Transaction, wholly or in part, the
\* settlement credits the transacted shares to the ledger position of the
\* agent that bought; a buy that is only queued credits no shares.
C2_SettlementCreditsBuyer ==
    last.op = "trade" /\ last.err = "Ok" =>
        /\ Resolved(last.answer) /\ last.txn.buyer_id # last.txn.seller_id =>
              HoldingsGet(holdings, BuyingAgent, last.txn.company_id)
                >= HoldingsGet(pre.holdings, BuyingAgent, last.txn.company_id)
                    + last.txn.number_of_shares
        /\ last.answer = "AddedToOffers" /\ last.action = "Buy" =>
              holdings = pre.holdings

\* C6: a buy with balance >= strike_price * quantity that the market queues
\* lowers the agent's balance by exactly strike_price * quantity and changes no
\* other balance and no ledger count; a queued sell the ledger covers lowers
\* only the seller's (agent, company) count, by the quantity.
C6_QueuedLocksCollateral ==
    last.op = "trade" /\ last.answer = "AddedToOffers" /\ ~CollateralFails =>
        /\ last.err = "Ok"
        /\ balances = LockedBalances
        /\ holdings = LockedHoldings
        /\ try_offers = pre.try_offers

C6_Witness ==
    /\ last.op = "trade" /\ last.answer = "AddedToOffers" /\ ~CollateralFails
    /\ last.action = "Buy" /\ last.qty = 2
    /\ balances[last.agent_id] = pre.balances[last.agent_id] - Cost

\* C7: when the collateral step fails (a sell the ledger does not cover, a buy
\* the balance does not cover), trade returns Unspendable and every balance and
\* every ledger count is as before the call.
C7_FailedCollateralChangesNothing ==
    last.op = "trade" /\ CollateralFails =>
        /\ last.err = "Unspendable"
        /\ balances = pre.balances
        /\ holdings = pre.holdings

C7_Witness ==
    /\ last.op = "trade" /\ CollateralFails
    /\ last.action = "Buy" /\ Resolved(last.answer)
    /\ last.err = "Unspendable"

C9_NoRollback ==
    last.op = "trade" /\ ~CollateralFails /\ last.err # "Ok" =>
        /\ Resolved(last.answer)
        /\ last.err = "Unspendable"
        /\ last.action = "Buy" =>
              balances[last.agent_id] = pre.balances[last.agent_id] - Cost
        /\ last.action = "Sell" =>
              HoldingsGet(holdings, last.agent_id, last.company_id)
                = HoldingsGet(pre.holdings, last.agent_id, last.company_id) - last.qty
        /\ balances = LockedBalances
        /\ holdings = LockedHoldings

C9_Witness ==
    /\ last.op = "trade" /\ ~CollateralFails /\ last.err = "Unspendable"
    /\ last.action = "Buy" /\ last.qty = 2
    /\ balances[last.agent_id] = pre.balances[last.agent_id] - Cost

(* The claims about alert_agents read the call that `last` records: the
   expired offers it was handed, the state `pre` it started from and the
   state it left. *)

\* The expired offers of company c in the order alert_agents visits them for
\* one retry key: the trade offers, then the option offers.
ExpiredOffers(c) == last.expired_trades[c] \o last.expired_options[c]

RECURSIVE SharesLocked(_, _)
\* The shares the sell offers of agent a in `offers` had locked.
SharesLocked(offers, a) ==
    IF offers = <<>>
    THEN 0
    ELSE (IF Head(offers).action = "Sell" /\ Head(offers).offerer_id = a
          THEN Head(offers).number_of_shares
          ELSE 0) + SharesLocked(Tail(offers), a)

RECURSIVE CashLocked(_, _)
\* The cash the buy offers of agent a in `offers` had locked.
CashLocked(offers, a) ==
    IF offers = <<>>
    THEN 0
    ELSE (IF Head(offers).action = "Buy" /\ Head(offers).offerer_id = a
          THEN Head(offers).strike_price * Head(offers).number_of_shares
          ELSE 0) + CashLocked(Tail(offers), a)

RECURSIVE CashLockedAll(_, _)
CashLockedAll(companies, a) ==
    IF companies = {}
    THEN 0
    ELSE LET c == CHOOSE x \in companies : TRUE
         IN  CashLocked(ExpiredOffers(c), a) + CashLockedAll(companies \ {c}, a)

\* The positions in ExpiredOffers(c) of the offers agent a had placed.
OffersOf(a, c) ==
    {i \in 1 .. Len(ExpiredOffers(c)) : ExpiredOffers(c)[i].offerer_id = a}

\* The last of them: the one whose retry value stays in the pool.
LastOfferOf(a, c) ==
    ExpiredOffers(c)[CHOOSE i \in OffersOf(a, c) : \A j \in OffersOf(a, c) : j <= i]

SomeExpired(action) ==
    \E c \in CompanyIds : \E i \in 1 .. Len(ExpiredOffers(c)) :
        ExpiredOffers(c)[i].action = action

\* The recorded alert_agents call handled exactly the order the trade before
\* it had queued, and that trade was a paid order of the given side.
ExpiryOfQueued(action) ==
    /\ last.op = "alert" /\ last.err = "Ok"
    /\ last.newest
    /\ last.expired_options = EmptyExpired
    /\ last.after.trade.op = "trade"
    /\ last.after.trade.answer = "AddedToOffers"
    /\ last.after.trade.err = "Ok"
    /\ last.after.trade.action = action

\* C3: for every expired sell offer passed to alert_agents, trade offers and
\* option offers alike, the locked shares are added back to the position
\* (offerer, company) of the agent who placed the offer; a sell that trade
\* queued and that then expires leaves that agent's count as it was before
\* the trade.
C3_ExpiredSellReturnsShares ==
    /\ last.op = "alert" /\ last.err = "Ok" =>
          \A a \in AgentIds, c \in CompanyIds :
              HoldingsGet(holdings, a, c)
                = HoldingsGet(pre.holdings, a, c) + SharesLocked(ExpiredOffers(c), a)
    /\ ExpiryOfQueued("Sell") =>
          HoldingsGet(holdings, last.after.trade.agent_id, last.after.trade.company_id)
            = HoldingsGet(last.after.pre.holdings, last.after.trade.agent_id,
                          last.after.trade.company_id)

\* C4: a buy of q shares at strike p that trade queued, debiting p * q, and
\* that later expires is refunded by alert_agents with exactly p * q to the
\* offerer's balance: the balance is back at its value before the trade, no
\* other balance moves and no ledger count changes.
C4_BuyExpiryRoundTrip ==
    /\ last.op = "alert" /\ last.err = "Ok" =>
          /\ \A a \in AgentIds :
                balances[a] = pre.balances[a] + CashLockedAll(CompanyIds, a)
          /\ ~SomeExpired("Sell") => holdings = pre.holdings
    /\ ExpiryOfQueued("Buy") =>
          /\ balances = last.after.pre.balances
          /\ holdings = last.after.pre.holdings

C4_Witness ==
    /\ ExpiryOfQueued("Buy")
    /\ last.after.trade.qty = 2 /\ last.after.trade.strike_price = 4
    /\ balances[last.after.trade.agent_id] = pre.balances[last.after.trade.agent_id] + 8
    /\ balances = last.after.pre.balances

C11_LengthWithinCapacity == Len(timeline.data) <= TIMELINE_SIZE_LIMIT

C11_Witness ==
    /\ last.op = "add" /\ last.err = "Ok"
    /\ Len(last.before.data) < TIMELINE_SIZE_LIMIT
    /\ Len(last.before.data) + Len(last.data) > TIMELINE_SIZE_LIMIT
    /\ Len(timeline.data) = TIMELINE_SIZE_LIMIT

\* C12: adding exactly C events to an empty Timeline, in one call or split over
\* several, yields length C, the events in insertion order and target_index 0.
C12_ExactFill ==
    total = TIMELINE_SIZE_LIMIT =>
        /\ Alive
        /\ Len(timeline.data) = TIMELINE_SIZE_LIMIT
        /\ timeline.data = added
        /\ timeline.target_index = 0

C12_Witness ==
    /\ total = TIMELINE_SIZE_LIMIT
    /\ last.op = "add" /\ Len(last.data) = 1
    /\ Len(last.before.data) = TIMELINE_SIZE_LIMIT - 1
    /\ timeline.data = added
    /\ \E i, j \in 1 .. Len(added) : added[i] # added[j]

\* C13: partial overflow.  When add receives k events on a Timeline of length
\* L < C with L + k > C, the result has length C; the first C - L events are
\* appended after the old content, the remaining r = k - (C - L) events then
\* overwrite slots 0 .. r - 1 in order, target_index becomes r, and the slot
\* at target_index holds the oldest surviving element.
C13_PartialOverflow ==
    last.op = "add" /\ Len(last.before.data) < TIMELINE_SIZE_LIMIT
                    /\ Len(last.before.data) + Len(last.data) > TIMELINE_SIZE_LIMIT =>
        LET L == Len(last.before.data)
            r == Len(last.data) - (TIMELINE_SIZE_LIMIT - L)
        IN  /\ last.err = "Ok"
            /\ Len(timeline.data) = TIMELINE_SIZE_LIMIT
            /\ timeline.target_index = r
            /\ r < Len(timeline.data)
            /\ \A j \in 0 .. (TIMELINE_SIZE_LIMIT - 1) :
                  Slot(timeline, j) = IF j < r
                                      THEN last.data[(TIMELINE_SIZE_LIMIT - L) + j + 1]
                                      ELSE IF j < L
                                      THEN last.before.data[j + 1]
                                      ELSE last.data[j - L + 1]

\* What a call can answer, over the indices the generator may draw.
GetRngAnswers(tl) == {get_rng(tl, index) : index \in RecencyIndices(tl, Len(tl.data))}

RecencyAnswers(tl, bias_size) ==
    {recency_bias(tl, bias_size, index) : index \in RecencyIndices(tl, bias_size)}

\* C14: for every Timeline and every bias_size >= length, recency_bias behaves
\* as get_rng: it fails with NoData exactly when get_rng does, and the values
\* it can return are the values get_rng can return, the whole buffer.
C14_FullWindowIsGetRng ==
    Alive =>
        /\ \A bias_size \in Len(timeline.data) .. (TIMELINE_SIZE_LIMIT + 1) :
              RecencyAnswers(timeline, bias_size) = GetRngAnswers(timeline)
        /\ last.op = "recency_bias" /\ last.bias_size >= Len(timeline.data) =>
              [err |-> last.err, val |-> last.val] = get_rng(timeline, last.index)

C14_Witness ==
    /\ last.op = "recency_bias" /\ last.bias_size = Len(timeline.data)
    /\ Len(timeline.data) >= 2 /\ last.index >= 1
    /\ last.err = "Ok" /\ last.val = Slot(timeline, last.index)
    /\ Slot(timeline, 0) # Slot(timeline, last.index)

\* C15: get_rng fails with NoData if and only if the buffer is empty;
\* otherwise it returns the content of some slot, every slot being a possible
\* outcome, and it never changes the Timeline.
C15_GetRng ==
    /\ last.op = "get_rng" =>
          /\ (last.err = "NoData") <=> (last.before.data = <<>>)
          /\ last.err = "Ok" =>
                \E j \in 0 .. (Len(last.before.data) - 1) : last.val = Slot(last.before, j)
          /\ timeline = last.before
    /\ Alive /\ timeline.data # <<>> =>
          {a.val : a \in GetRngAnswers(timeline)}
            = {Slot(timeline, j) : j \in 0 .. (Len(timeline.data) - 1)}

C15_Witness ==
    /\ last.op = "get_rng" /\ last.err = "Ok"
    /\ Len(timeline.data) >= 2 /\ last.index = 0
    /\ last.val = Slot(timeline, 0)
    /\ last.val # Slot(timeline, Len(timeline.data) - 1)

(* The claims about the Preferences table read the call that `last` records
   and the table `last.before` it was made on. *)

\* The event a recorded add or sub stands for.
PreferenceItem == <<last.company_id, IF last.op = "pref_add" THEN "Buy" ELSE "Sell">>

\* C16: Preferences::add / sub return AgentNotFound(agent) if and only if the
\* agent id is not an index of the table, and then no Timeline changes;
\* otherwise they apply Timeline::add with exactly `weight` copies of
\* (company, Buy) for add, (company, Sell) for sub, to that agent's Timeline
\* and leave the Timeline of every other agent unchanged.
C16_PreferencesAddSub ==
    last.op \in {"pref_add", "pref_sub"} =>
        IF last.agent_id \notin DOMAIN last.before
        THEN /\ last.err = "AgentNotFound"
             /\ preferences = last.before
        ELSE LET old == last.before[last.agent_id]
                 r == TimelineAdd(old, Copies(PreferenceItem, last.preference))
             IN  /\ last.err # "AgentNotFound"
                 /\ last.err = r.err
                 /\ preferences[last.agent_id] = r.tl
                 /\ Len(old.data) + last.preference <= TIMELINE_SIZE_LIMIT =>
                       preferences[last.agent_id].data
                         = old.data \o Copies(PreferenceItem, last.preference)
                 /\ \A other \in DOMAIN last.before \ {last.agent_id} :
                       preferences[other] = last.before[other]
                 /\ DOMAIN preferences = DOMAIN last.before

C16_Witness ==
    /\ last.op = "pref_sub" /\ last.agent_id = 1 /\ last.err = "Ok"
    /\ last.preference = 1
    /\ last.before[0].data # <<>>
    /\ preferences[0] = last.before[0]
    /\ preferences[1].data = last.before[1].data \o <<<<last.company_id, "Sell">>>>

\* C17: after Preferences::add(agent, company, weight) with weight >= 1 on an
\* agent whose Timeline was empty, every call of get_preferred_random(agent)
\* succeeds and returns (company, Buy), whatever index the generator draws
\* (also on the buffer an add leaves that panicked on its overflow slice).
C17_SinglePreference ==
    /\ last.op = "pref_add" /\ last.preference >= 1
    /\ last.agent_id \in DOMAIN last.before
    /\ last.before[last.agent_id].data = <<>>
    => \A index \in PreferredIndices(last.agent_id) :
          get_preferred_random(preferences, last.agent_id, index)
            = [err |-> "Ok", val |-> <<last.company_id, "Buy">>]

C17_Witness ==
    /\ last.op = "pref_add" /\ last.err = "Ok"
    /\ last.preference = TIMELINE_SIZE_LIMIT + 1
    /\ last.agent_id = 1 /\ last.company_id = 1
    /\ last.before[1].data = <<>>
    /\ Len(preferences[1].data) = TIMELINE_SIZE_LIMIT
    /\ get_preferred_random(preferences, 1, TIMELINE_SIZE_LIMIT - 1)
         = [err |-> "Ok", val |-> <<1, "Buy">>]

\* C18: KeyCodec round trip.  For all a and b of the word width,
\* get_first(combine(a, b)) = a and get_second(combine(a, b)) = b; hence
\* combine is injective and two distinct (agent, company) pairs never share a
\* ledger or retry-pool key.
C18_CodecRoundTrip ==
    /\ \A a \in Words, b \in Words :
          get_first(combine(a, b)) = a /\ get_second(combine(a, b)) = b
    /\ last.op = "get_first" => last.val = last.a
    /\ last.op = "get_second" => last.val = last.b
    /\ last.op = "combine" /\ last.other.op = "combine" =>
          (last.key = last.other.key) <=> (last.a = last.other.a /\ last.b = last.other.b)

C18_Witness ==
    /\ last.op = "get_first"
    /\ last.a = Word - 1 /\ last.b = Word - 1
    /\ last.key = Word * Word - 1
    /\ last.val = Word - 1

\* C19: Holdings::push(agent, company, n) always succeeds: afterwards
\* get(agent, company) is the previous count (0 if absent) plus n, and the
\* count of every other (agent, company) pair is unchanged.
C19_PushAdds ==
    last.op = "push" =>
        /\ last.err = "Ok"
        /\ HoldingsGet(holdings, last.agent_id, last.company_id)
             = HoldingsGet(pre.holdings, last.agent_id, last.company_id) + last.n
        /\ OthersUnchanged(last.agent_id, last.company_id)

C19_Witness ==
    /\ last.op = "push" /\ last.n = 1
    /\ HoldingsGet(pre.holdings, last.agent_id, last.company_id) = 2
    /\ HoldingsGet(holdings, last.agent_id, last.company_id) = 3
    /\ combine(1, 1) \in DOMAIN holdings

\* C20: determinism.  Two runs of an engine operation from equal states with
\* equally seeded passed generators end in equal states: the outcome is a
\* function of the state before the call and of what the passed generator
\* draws, whatever any other random source gives.
C20_Deterministic ==
    last.op = "give_random_assets" =>
        \A shares \in [AgentIds -> AssetShares] :
            LET r == give_random_assets(pre.holdings, pre.balances, last.rng.amounts,
                                        last.rng.companies, shares)
            IN  r.h = holdings /\ r.b = balances

\* C21: trade locks the collateral before it submits the order to the
\* matching mechanism: whenever trade fails in the collateral step with
\* Unspendable, no order of that call has been submitted and the book of the
\* matching mechanism is unchanged.
C21_CollateralBeforeSubmit ==
    last.op = "trade" /\ CollateralFails /\ last.err = "Unspendable" =>
        book = pre.book

\* The incoming positions a full-buffer add writes to slot j (0-based), taking
\* the first `limit` incoming events.
WritersOf(j, limit) ==
    {i \in 0 .. (Min(Len(last.data), limit) - 1) :
        (i + last.before.target_index) % TIMELINE_SIZE_LIMIT = j}

\* Slot j after the writes: the last writer's event, or the old content.
WrittenSlot(j, limit) ==
    IF WritersOf(j, limit) = {}
    THEN Slot(last.before, j)
    ELSE last.data[(CHOOSE i \in WritersOf(j, limit) :
                       \A x \in WritersOf(j, limit) : x <= i) + 1]

FullBufferAdd == last.op = "add" /\ Len(last.before.data) = TIMELINE_SIZE_LIMIT

\* C22 as the specification states it: when add is called on a Timeline at
\* capacity C, each incoming event at relative position i, for every i of the
\* incoming sequence and also when it is longer than C, is written to slot
\* (i + target_index) mod C; the length stays C and target_index is unchanged.
C22_FullBufferWritesAll ==
    FullBufferAdd =>
        /\ last.err = "Ok"
        /\ Len(timeline.data) = TIMELINE_SIZE_LIMIT
        /\ timeline.target_index = last.before.target_index
        /\ \A j \in 0 .. (TIMELINE_SIZE_LIMIT - 1) :
              Slot(timeline, j) = WrittenSlot(j, Len(last.data))

\* C22, amended: the incoming events at relative positions i < C are written
\* to slot (i + target_index) mod C and those at positions i >= C are dropped;
\* the length stays C and target_index is unchanged.
C22_FullBufferWritesFirstC ==
    FullBufferAdd =>
        /\ last.err = "Ok"
        /\ Len(timeline.data) = TIMELINE_SIZE_LIMIT
        /\ timeline.target_index = last.before.target_index
        /\ \A j \in 0 .. (TIMELINE_SIZE_LIMIT - 1) :
              Slot(timeline, j) = WrittenSlot(j, TIMELINE_SIZE_LIMIT)

C22_Witness ==
    /\ FullBufferAdd
    /\ Len(last.data) = TIMELINE_SIZE_LIMIT + 1
    /\ last.before.target_index = 1
    /\ last.data[TIMELINE_SIZE_LIMIT + 1] # last.data[1]
    /\ Slot(timeline, 1) = last.data[1]
    /\ Slot(timeline, 0) = last.data[TIMELINE_SIZE_LIMIT]

\* C26: in every Timeline reachable from the empty one by add calls with
\* incoming sequences of any length, add and recency_bias with any
\* bias_size >= 1 never access a slot or slice outside the buffer, and
\* target_index <= length.
C26_NoOutOfRange ==
    /\ last.op = "add" => last.err # "Panic"
    /\ timeline.target_index <= Len(timeline.data)
    /\ \A bias_size \in 1 .. (Len(timeline.data) - 1) :
          \A index \in RecencyIndices(timeline, bias_size) :
              /\ 0 <= recency_slot(timeline, bias_size, index)
              /\ recency_slot(timeline, bias_size, index) < Len(timeline.data)

\* C25: starting from non-negative balances and with non-negative strike
\* prices, after any sequence of trade, do_transactions, settlement and
\* alert_agents calls every balance is still non-negative.
C25_BalancesNonNegative ==
    \A agent_id \in DOMAIN balances : balances[agent_id] >= 0

\* A buy that spent the whole balance of the agent.
C25_Witness ==
    /\ last.op = "do_transactions" /\ Len(last.calls) = 1
    /\ last.transactions[1].action = "Buy"
    /\ last.calls[1].err = "Ok"
    /\ pre.balances[last.transactions[1].agent_id] =
          last.transactions[1].strike_price * last.transactions[1].number_of_shares
    /\ balances[last.transactions[1].agent_id] = 0

CandidateTrade == last.op = "trade" /\ last.answer = "Candidates"

\* C27: when the market answers trade with a candidate-offer set, the only
\* change to agent-side state is the collateral lock of the calling agent:
\* whether or not a candidate is accepted, no share count is increased, no
\* balance is credited, and the counterparty's balance and holdings are
\* unchanged.
C27_CandidatesOnlyLock ==
    CandidateTrade =>
        /\ holdings = IF CollateralFails THEN pre.holdings ELSE LockedHoldings
        /\ balances = IF CollateralFails THEN pre.balances ELSE LockedBalances
        /\ try_offers = pre.try_offers
        /\ \A k \in Keys : HoldingsGetU128(holdings, k) <= HoldingsGetU128(pre.holdings, k)
        /\ \A a \in DOMAIN balances : balances[a] <= pre.balances[a]
        /\ \A a \in DOMAIN balances \ {last.agent_id} :
              /\ balances[a] = pre.balances[a]
              /\ \A c \in CompanyIds :
                    HoldingsGet(holdings, a, c) = HoldingsGet(pre.holdings, a, c)

\* An accepted candidate: the forced execution has consumed the queued offer.
C27_Witness ==
    /\ CandidateTrade /\ last.accept /\ ~CollateralFails
    /\ last.err = "Ok"
    /\ book # pre.book
    /\ \E i \in DOMAIN pre.book : pre.book[i].offerer_id # last.agent_id

\* The state try_failed_offers ran in can pay for the intent.
Feasible(todo_transaction) ==
    IF todo_transaction.action = "Buy"
    THEN /\ todo_transaction.agent_id \in DOMAIN balances
         /\ balances[todo_transaction.agent_id] >=
                todo_transaction.strike_price * todo_transaction.number_of_shares
    ELSE HoldingsGet(holdings, todo_transaction.agent_id, todo_transaction.company_id) >=
             todo_transaction.number_of_shares

\* The intent comes from the retry-pool entry with key id.
FromRetryEntry(todo_transaction, id) ==
    /\ todo_transaction.agent_id = get_first(id)
    /\ todo_transaction.company_id = get_second(id)
    /\ try_offers[id] > 0 =>
          todo_transaction.action = "Buy" /\ todo_transaction.strike_price = try_offers[id]
    /\ try_offers[id] <= 0 =>
          todo_transaction.action = "Sell" /\ todo_transaction.strike_price = 0 - try_offers[id]

BeforeCall(i) ==
    IF i = 1
    THEN [h |-> pre.holdings, b |-> pre.balances, book |-> pre.book]
    ELSE [h |-> last.calls[i - 1].h, b |-> last.calls[i - 1].b,
          book |-> last.calls[i - 1].book]

\* The state the recorded batch left.
AfterBatch ==
    IF last.calls = <<>>
    THEN [h |-> pre.holdings, b |-> pre.balances, book |-> pre.book]
    ELSE [h |-> last.calls[Len(last.calls)].h, b |-> last.calls[Len(last.calls)].b,
          book |-> last.calls[Len(last.calls)].book]

\* C24: do_transactions calls trade on the intents in the given order, each
\* call seeing the state the earlier ones left, and stops at the first trade
\* that fails: it returns that error, the intents after it are not attempted
\* and the effects of the earlier ones are kept.
C24_BatchStopsAtFirstError ==
    last.op = "do_transactions" =>
        /\ Len(last.calls) <= Len(last.transactions)
        /\ \A i \in DOMAIN last.calls :
              /\ last.calls[i] \in TradeOutcomes(BeforeCall(i).h, BeforeCall(i).b,
                                                 BeforeCall(i).book, last.transactions[i])
              /\ i < Len(last.calls) => last.calls[i].err = "Ok"
        /\ IF \E i \in DOMAIN last.calls : last.calls[i].err # "Ok"
           THEN last.err = last.calls[Len(last.calls)].err
           ELSE last.err = "Ok" /\ Len(last.calls) = Len(last.transactions)
        /\ holdings = AfterBatch.h
        /\ balances = AfterBatch.b
        /\ book = AfterBatch.book
        /\ try_offers = pre.try_offers

\* A batch whose first trade locked collateral and whose second trade failed.
C24_Witness ==
    /\ last.op = "do_transactions"
    /\ Len(last.transactions) = 2 /\ Len(last.calls) = 2
    /\ last.calls[1].err = "Ok"
    /\ last.calls[1].b # pre.balances
    /\ last.calls[2].err = "Unspendable"
    /\ last.err = "Unspendable"
    /\ balances = last.calls[1].b
    /\ balances # pre.balances

====
